---- MODULE Spec2Model ----
(***************************************************************************)
(* State-machine model of the unified feedback / icon-changer server       *)
(* (src/app.js), and of the standalone icon server                         *)
(* (src/unnamed/part_000), whose icon routes are the same handlers behind  *)
(* a different body parser.                                                *)
(*                                                                         *)
(* JavaScript values are represented as follows.                           *)
(*   - a request body is a function from the field names it carries to     *)
(*     their values; a field the body does not carry is `undefined`;       *)
(*   - an icon identifier, display name or url is a TLA+ string;           *)
(*   - a feedback text (title, description, a sheet cell) is a sequence    *)
(*     of one-character strings, so that String.prototype.trim can be      *)
(*     computed;                                                           *)
(*   - a Date is a natural number, the instant new Date() returned.        *)
(***************************************************************************)
EXTENDS Integers, Sequences, FiniteSets, TLC

VARIABLES
    server,        \* "starting" until startServer reaches app.listen
    activeIcons,   \* the registry object: own key -> icon record
    iconKeys,      \* the own keys of activeIcons in the order they were created
    now,           \* the latest instant new Date() has returned
    notified,      \* argument of the latest notifyAllApps call ("" before any)
    iconRes,       \* the latest response sent by an icon route
    sheet,         \* Sheet1!A:G of the spreadsheet, a sequence of rows
    media,         \* the urls live in the Cloudinary store
    subs,          \* the POST /api/feedback requests, by request number
    headersLog,    \* what initializeSheetHeaders logged in this process
    headerWrites,  \* number of header rows written to Sheet1!A1:G1 so far
    boots,         \* number of times the process has been started
    feedbackRes,   \* the latest response sent by GET /api/feedback
    listing,       \* the GET /api/feedback request in flight, if any
    standalone     \* the state of the standalone icon server, a process of its own

vars == <<server, activeIcons, iconKeys, now, notified, iconRes, sheet, media, subs,
          headersLog, headerWrites, boots, feedbackRes, listing, standalone>>

\* what only GET /api/feedback touches
readVars == <<feedbackRes, listing>>

\* what only startup touches
startupLog == <<headersLog, headerWrites, boots>>

iconVars == <<activeIcons, iconKeys, now, notified, iconRes>>

feedbackVars == <<sheet, media, subs>>

(***************************************************************************)
(* Bounds of the model.                                                    *)
(***************************************************************************)
\* new Date() returns an instant in 0..MaxClock
MaxClock == 1

\* number of POST /api/feedback requests the server receives
MaxSubs == 2

\* largest number of attachments one submission carries (multer allows 10)
MaxFiles == 3

\* number of times the process is started against the same spreadsheet
MaxStarts == 2

(***************************************************************************)
(* Generic helpers.                                                        *)
(***************************************************************************)
Range(s) == {s[i] : i \in DOMAIN s}

\* obj[key] for a request body: the value, or undefined when absent
HasField(body, f) == f \in DOMAIN body

\* !body[f] for a string-valued field: undefined and '' are falsy
Falsy(body, f) == ~HasField(body, f) \/ body[f] = ""

Restrict(fn, D) == [x \in D |-> fn[x]]

(***************************************************************************)
(* ICON CHANGER API - in-memory storage.                                   *)
(***************************************************************************)
BootstrapIcons ==
    [k \in {"DEFAULT", "navratri1", "navratri3"} |->
        CASE k = "DEFAULT"   -> [name |-> "Default", url |-> "/uploads/icons/default.png",
                                 isActive |-> TRUE, lastUpdated |-> 0]
          [] k = "navratri1" -> [name |-> "Navratri 1", url |-> "/uploads/icons/navratri1.png",
                                 isActive |-> FALSE, lastUpdated |-> 0]
          [] k = "navratri3" -> [name |-> "Navratri 3", url |-> "/uploads/icons/navratri3.png",
                                 isActive |-> FALSE, lastUpdated |-> 0]]

BootstrapKeys == <<"DEFAULT", "navratri1", "navratri3">>

\* activeIcons is created by an object literal, so it inherits the members
\* of Object.prototype: activeIcons[k] is a truthy inherited value for these
\* names although k is not an own key of the registry.
ObjectPrototypeKeys == {"constructor", "__proto__"}

\* Names that are canonical array indices, with their numeric value:
\* Object.keys lists such keys first, in ascending numeric order.
ArrayIndexValue == ("7" :> 7) @@ ("12" :> 12)

IsArrayIndex(k) == k \in DOMAIN ArrayIndexValue

RECURSIVE SortIndexKeys(_)
SortIndexKeys(S) ==
    IF S = {} THEN <<>>
    ELSE LET m == CHOOSE k \in S : \A j \in S : ArrayIndexValue[k] <= ArrayIndexValue[j]
         IN  <<m>> \o SortIndexKeys(S \ {m})

\* Object.keys(obj): integer-like keys ascending, then the other string keys
\* in the order they were created.
ObjectKeys(created) ==
    SortIndexKeys({k \in Range(created) : IsArrayIndex(k)})
        \o SelectSeq(created, LAMBDA k : ~IsArrayIndex(k))

\* !!activeIcons[iconName]: an own record, or a member inherited from
\* Object.prototype
IconTruthy(icons, iconName) ==
    iconName \in DOMAIN icons \/ iconName \in ObjectPrototypeKeys

\* Object.keys(activeIcons).find(key => activeIcons[key].isActive): a
\* sequence holding the first active key, empty when find returns undefined
RECURSIVE FindActive(_, _)
FindActive(icons, keys) ==
    IF keys = <<>> THEN <<>>
    ELSE IF icons[Head(keys)].isActive THEN <<Head(keys)>>
    ELSE FindActive(icons, Tail(keys))

\* mutant: the clear-all loop is missing
DeactivateNone(icons) == icons

\* Object.keys(activeIcons).forEach(key => activeIcons[key].isActive = false)
DeactivateAll(icons) ==
    [k \in DOMAIN icons |-> [icons[k] EXCEPT !.isActive = FALSE]]

\* mutant: the selected entry is made active, its lastUpdated is left alone
ActivateSelectedStale(icons, iconName, t) ==
    IF iconName \in DOMAIN icons
    THEN [icons EXCEPT ![iconName].isActive = TRUE]
    ELSE icons

\* activeIcons[iconName].isActive = true; .lastUpdated = new Date().
\* When iconName is not an own key the two writes land on the inherited
\* object (Object, or Object.prototype) and no registry record changes.
ActivateSelected(icons, iconName, t) ==
    IF iconName \in DOMAIN icons
    THEN [icons EXCEPT ![iconName].isActive = TRUE, ![iconName].lastUpdated = t]
    ELSE icons

\* mutant: the new record is stored active
NewIconActive(displayName, iconUrl, t) ==
    [name |-> displayName, url |-> iconUrl, isActive |-> TRUE, lastUpdated |-> t]

\* the record POST /api/admin/icons/add stores
NewIcon(displayName, iconUrl, t) ==
    [name |-> displayName, url |-> iconUrl, isActive |-> FALSE, lastUpdated |-> t]

\* mutant: the duplicate check is missing
AlreadyExistsNever(icons, iconName) == FALSE

\* the duplicate check of POST /api/admin/icons/add
AlreadyExists(icons, iconName) == IconTruthy(icons, iconName)

\* `${req.protocol}://${req.get('host')}${url}`
AbsoluteUrl(url) == "http://host" \o url

(***************************************************************************)
(* Request inputs of the icon routes.                                      *)
(***************************************************************************)
NewIconNames == {"diwali", "7"}

IconNameInputs ==
    {"", "DEFAULT", "navratri1", "navratri3", "holi"} \cup NewIconNames \cup ObjectPrototypeKeys

ActivateBodies ==
    {Restrict([iconName |-> n], D) : n \in IconNameInputs, D \in {{}, {"iconName"}}}

AddBodies ==
    {Restrict([iconName |-> n, displayName |-> "Festival", iconUrl |-> "/uploads/icons/new.png"], D) :
        n \in ({"", "DEFAULT", "constructor"} \cup NewIconNames),
        D \in {{"iconName", "displayName", "iconUrl"}, {"iconName", "displayName"},
               {"iconName", "iconUrl"}, {"displayName", "iconUrl"}}}

Instants == now..MaxClock

(***************************************************************************)
(* GET /api/app/current-icon                                               *)
(***************************************************************************)
GetCurrentIcon ==
    /\ server = "listening"
    /\ LET activeIcon == FindActive(activeIcons, ObjectKeys(iconKeys))
       IN  iconRes' =
             IF activeIcon = <<>>
             THEN [op |-> "current-icon", status |-> 404,
                   message |-> "No active icon found"]
             ELSE [op |-> "current-icon", status |-> 200,
                   iconName |-> activeIcon[1],
                   displayName |-> activeIcons[activeIcon[1]].name,
                   url |-> AbsoluteUrl(activeIcons[activeIcon[1]].url),
                   lastUpdated |-> activeIcons[activeIcon[1]].lastUpdated]
    /\ UNCHANGED <<server, startupLog, readVars, activeIcons, iconKeys, now, notified, feedbackVars>>

(***************************************************************************)
(* POST /api/admin/icons/activate                                          *)
(***************************************************************************)
Activate(body) ==
    /\ server = "listening"
    /\ IF Falsy(body, "iconName")
       THEN /\ iconRes' = [op |-> "activate", status |-> 400,
                           message |-> "iconName is required"]
            /\ UNCHANGED <<activeIcons, now, notified>>
       ELSE IF ~IconTruthy(activeIcons, body.iconName)
       THEN /\ iconRes' = [op |-> "activate", status |-> 400,
                           message |-> "Invalid icon name", iconName |-> body.iconName]
            /\ UNCHANGED <<activeIcons, now, notified>>
       ELSE \E t \in Instants :
            /\ activeIcons' = ActivateSelected(DeactivateAll(activeIcons), body.iconName, t)
            /\ now' = t
            /\ notified' = body.iconName
            /\ iconRes' = [op |-> "activate", status |-> 200,
                           activeIcon |-> body.iconName]
    /\ UNCHANGED <<server, startupLog, readVars, iconKeys, feedbackVars>>

(***************************************************************************)
(* GET /api/admin/icons                                                    *)
(***************************************************************************)
IconList(icons, keys) ==
    [i \in 1..Len(keys) |->
        [iconName |-> keys[i],
         displayName |-> icons[keys[i]].name,
         url |-> AbsoluteUrl(icons[keys[i]].url),
         isActive |-> icons[keys[i]].isActive,
         lastUpdated |-> icons[keys[i]].lastUpdated]]

GetAllIcons ==
    /\ server = "listening"
    /\ iconRes' = [op |-> "list", status |-> 200,
                   data |-> IconList(activeIcons, ObjectKeys(iconKeys))]
    /\ UNCHANGED <<server, startupLog, readVars, activeIcons, iconKeys, now, notified, feedbackVars>>

(***************************************************************************)
(* POST /api/admin/icons/add                                               *)
(***************************************************************************)
AddIcon(body) ==
    /\ server = "listening"
    /\ IF Falsy(body, "iconName") \/ Falsy(body, "displayName") \/ Falsy(body, "iconUrl")
       THEN /\ iconRes' = [op |-> "add", status |-> 400,
                           message |-> "iconName, displayName, and iconUrl are required"]
            /\ UNCHANGED <<activeIcons, iconKeys, now>>
       ELSE IF AlreadyExists(activeIcons, body.iconName)
       THEN /\ iconRes' = [op |-> "add", status |-> 400,
                           message |-> "already exists", iconName |-> body.iconName]
            /\ UNCHANGED <<activeIcons, iconKeys, now>>
       ELSE \E t \in Instants :
            /\ activeIcons' = (body.iconName :> NewIcon(body.displayName, body.iconUrl, t))
                                  @@ activeIcons
            /\ iconKeys' = Append(iconKeys, body.iconName)
            /\ now' = t
            /\ iconRes' = [op |-> "add", status |-> 200, iconName |-> body.iconName,
                           displayName |-> body.displayName, url |-> body.iconUrl]
    /\ UNCHANGED <<server, startupLog, readVars, notified, feedbackVars>>

(***************************************************************************)
(* STANDALONE ICON SERVER (src/unnamed/part_000)                           *)
(*                                                                         *)
(* A second process with a registry of its own.  Its handlers are written  *)
(* as functions of its state                                               *)
(*     st = [activeIcons, iconKeys, now, notified, res],                   *)
(* where now is the latest instant new Date() has returned in this         *)
(* process: each process reads the clock of its own host.                  *)
(***************************************************************************)
StandaloneBootstrap ==
    [activeIcons |->
        [k \in {"DEFAULT", "navratri1", "navratri3"} |->
            CASE k = "DEFAULT"   -> [name |-> "Default", url |-> "/uploads/icons/default.png",
                                     isActive |-> TRUE, lastUpdated |-> 0]
              [] k = "navratri1" -> [name |-> "Navratri 1", url |-> "/uploads/icons/navratri1.png",
                                     isActive |-> FALSE, lastUpdated |-> 0]
              [] k = "navratri3" -> [name |-> "Navratri 3", url |-> "/uploads/icons/navratri3.png",
                                     isActive |-> FALSE, lastUpdated |-> 0]],
     iconKeys |-> <<"DEFAULT", "navratri1", "navratri3">>,
     now |-> 0,
     notified |-> "",
     res |-> [op |-> "none", status |-> 0]]

\* A POST request as a client sends it: the Content-Type of its body, whether
\* the body is larger than 100kb (and at most 10mb), and the fields it holds.
ContentTypes == {"application/json", "application/x-www-form-urlencoded"}

\* req.body in the unified server: express.json({limit: '10mb'}) parses a
\* JSON body, express.urlencoded({extended: true, limit: '10mb'}) a form body
UnifiedBody(req) == req.body

\* req.body in the standalone server, which installs express.json() alone,
\* with the default limit of 100kb.  A JSON body over the limit is refused
\* by the parser and the request goes to the error middleware.  A form body
\* is not parsed: req.body is {} or undefined, depending on the version of
\* Express that is installed.
StandaloneBody(req) ==
    IF req.type = "application/json"
    THEN IF req.large
         THEN {[outcome |-> "error"]}
         ELSE {[outcome |-> "body", body |-> req.body]}
    ELSE {[outcome |-> "body", body |-> <<>>], [outcome |-> "undefined"]}

\* the error handling middleware
StandaloneError(st) ==
    [st EXCEPT !.res = [op |-> "error", status |-> 500, message |-> "Internal server error"]]

\* GET /api/app/current-icon
StandaloneGetCurrentIcon(st) ==
    LET activeIcon == FindActive(st.activeIcons, ObjectKeys(st.iconKeys))
    IN  [st EXCEPT !.res =
            IF activeIcon = <<>>
            THEN [op |-> "current-icon", status |-> 404, message |-> "No active icon found"]
            ELSE [op |-> "current-icon", status |-> 200,
                  iconName |-> activeIcon[1],
                  displayName |-> st.activeIcons[activeIcon[1]].name,
                  url |-> AbsoluteUrl(st.activeIcons[activeIcon[1]].url),
                  lastUpdated |-> st.activeIcons[activeIcon[1]].lastUpdated]]

\* Object.keys(activeIcons).forEach(key => activeIcons[key].isActive = false)
StandaloneDeactivateAll(icons) ==
    [k \in DOMAIN icons |-> [name |-> icons[k].name, url |-> icons[k].url,
                             isActive |-> FALSE, lastUpdated |-> icons[k].lastUpdated]]

\* activeIcons[iconName].isActive = true; .lastUpdated = new Date()
StandaloneActivateSelected(icons, iconName, t) ==
    [k \in DOMAIN icons |->
        IF k = iconName
        THEN [name |-> icons[k].name, url |-> icons[k].url, isActive |-> TRUE, lastUpdated |-> t]
        ELSE icons[k]]

\* POST /api/admin/icons/activate
StandaloneActivate(st, parsed, t) ==
    IF parsed.outcome = "error" THEN StandaloneError(st)
    ELSE IF parsed.outcome = "undefined"
    THEN [st EXCEPT !.res = [op |-> "activate", status |-> 500,
                             message |-> "Failed to activate icon"]]
    ELSE IF Falsy(parsed.body, "iconName")
    THEN [st EXCEPT !.res = [op |-> "activate", status |-> 400,
                             message |-> "iconName is required"]]
    ELSE IF ~IconTruthy(st.activeIcons, parsed.body.iconName)
    THEN [st EXCEPT !.res = [op |-> "activate", status |-> 400,
                             message |-> "Invalid icon name",
                             iconName |-> parsed.body.iconName]]
    ELSE [st EXCEPT !.activeIcons =
                        StandaloneActivateSelected(StandaloneDeactivateAll(st.activeIcons),
                                                   parsed.body.iconName, t),
                    !.now = t,
                    !.notified = parsed.body.iconName,
                    !.res = [op |-> "activate", status |-> 200,
                             activeIcon |-> parsed.body.iconName]]

\* GET /api/admin/icons
StandaloneGetAllIcons(st) ==
    [st EXCEPT !.res =
        [op |-> "list", status |-> 200,
         data |-> [i \in 1..Len(ObjectKeys(st.iconKeys)) |->
                      LET key == ObjectKeys(st.iconKeys)[i]
                      IN  [iconName |-> key,
                           displayName |-> st.activeIcons[key].name,
                           url |-> AbsoluteUrl(st.activeIcons[key].url),
                           isActive |-> st.activeIcons[key].isActive,
                           lastUpdated |-> st.activeIcons[key].lastUpdated]]]]

\* mutant: the standalone server stores a new record as the active one
StandaloneNewIconActive(displayName, iconUrl, t) ==
    [name |-> displayName, url |-> iconUrl, isActive |-> TRUE, lastUpdated |-> t]

\* the record POST /api/admin/icons/add stores
StandaloneNewIcon(displayName, iconUrl, t) ==
    [name |-> displayName, url |-> iconUrl, isActive |-> FALSE, lastUpdated |-> t]

\* POST /api/admin/icons/add
StandaloneAddIcon(st, parsed, t) ==
    IF parsed.outcome = "error" THEN StandaloneError(st)
    ELSE IF parsed.outcome = "undefined"
    THEN [st EXCEPT !.res = [op |-> "add", status |-> 500, message |-> "Failed to add icon"]]
    ELSE IF \/ Falsy(parsed.body, "iconName")
            \/ Falsy(parsed.body, "displayName")
            \/ Falsy(parsed.body, "iconUrl")
    THEN [st EXCEPT !.res = [op |-> "add", status |-> 400,
                             message |-> "iconName, displayName, and iconUrl are required"]]
    ELSE IF IconTruthy(st.activeIcons, parsed.body.iconName)
    THEN [st EXCEPT !.res = [op |-> "add", status |-> 400, message |-> "already exists",
                             iconName |-> parsed.body.iconName]]
    ELSE [st EXCEPT !.activeIcons =
                        (parsed.body.iconName :>
                            StandaloneNewIcon(parsed.body.displayName, parsed.body.iconUrl, t))
                        @@ st.activeIcons,
                    !.iconKeys = Append(st.iconKeys, parsed.body.iconName),
                    !.now = t,
                    !.res = [op |-> "add", status |-> 200,
                             iconName |-> parsed.body.iconName,
                             displayName |-> parsed.body.displayName,
                             url |-> parsed.body.iconUrl]]

(***************************************************************************)
(* The same request sent to both servers at the same instant.              *)
(***************************************************************************)
BothActivateRequests ==
    {[type |-> ty, large |-> lg, body |-> b] :
        ty \in ContentTypes, lg \in BOOLEAN,
        b \in {<<>>} \cup {[iconName |-> n] : n \in {"navratri1", "diwali", "constructor"}}}

BothAddRequests ==
    {[type |-> ty, large |-> lg, body |-> b] :
        ty \in ContentTypes, lg \in BOOLEAN,
        b \in {[iconName |-> n, displayName |-> "Festival", iconUrl |-> "/uploads/icons/new.png"] :
                  n \in {"diwali", "DEFAULT"}}
              \cup {[iconName |-> "diwali", displayName |-> "Festival"]}}

BothGetCurrentIcon ==
    /\ GetCurrentIcon
    /\ standalone' = StandaloneGetCurrentIcon(standalone)

BothGetAllIcons ==
    /\ GetAllIcons
    /\ standalone' = StandaloneGetAllIcons(standalone)

\* the instants new Date() can return in the standalone process
StandaloneInstants == standalone.now..MaxClock

\* each server stamps the instant it reads itself, when its handler gets as
\* far as new Date(), whatever the other server does with the request
BothActivate(req) ==
    /\ Activate(UnifiedBody(req))
    /\ \E parsed \in StandaloneBody(req), t \in StandaloneInstants :
          standalone' = StandaloneActivate(standalone, parsed, t)

BothAddIcon(req) ==
    /\ AddIcon(UnifiedBody(req))
    /\ \E parsed \in StandaloneBody(req), t \in StandaloneInstants :
          standalone' = StandaloneAddIcon(standalone, parsed, t)

(***************************************************************************)
(* FEEDBACK API                                                            *)
(***************************************************************************)
Whitespace == {" ", "\t", "\n"}

\* String.prototype.trim on a sequence of characters
RECURSIVE TrimStart(_)
TrimStart(s) ==
    IF s # <<>> /\ Head(s) \in Whitespace THEN TrimStart(Tail(s)) ELSE s

RECURSIVE TrimEnd(_)
TrimEnd(s) ==
    IF s # <<>> /\ s[Len(s)] \in Whitespace THEN TrimEnd(SubSeq(s, 1, Len(s) - 1)) ELSE s

\* mutant: the text is tested untrimmed
TrimNothing(s) == s

Trim(s) == TrimEnd(TrimStart(s))

\* !body[f] || body[f].trim() === '' for a text field
IsBlank(body, f) == ~HasField(body, f) \/ body[f] = <<>> \/ Trim(body[f]) = <<>>

\* body[f]?.trim() || ''
TrimOrEmpty(body, f) == IF HasField(body, f) THEN Trim(body[f]) ELSE <<>>

\* result.secure_url of the upload of file number i (1-based) of request r:
\* Cloudinary gives every upload its own public_id and url
SecureUrl(r, i) == "u" \o ToString(r) \o ToString(i)

\* uploadResult as resolved by uploadToCloudinary
UploadResult(r, i) == [url |-> SecureUrl(r, i), original_name |-> i]

\* cloudinaryUrls.join(', ') as a sequence of characters, each url one token
RECURSIVE Join(_)
Join(urls) ==
    IF urls = <<>> THEN <<>>
    ELSE IF Len(urls) = 1 THEN <<urls[1]>>
    ELSE <<urls[1], ",", " ">> \o Join(Tail(urls))

\* moment().format('YYYY-MM-DD') and moment().toISOString() of the request
\* time; no customDate / customTimestamp is supplied by the modelled clients
DateCell == <<"YYYY-MM-DD">>

TimestampCell == <<"ISO-8601">>

\* feedbackData as prepared by the handler
FeedbackData(s) ==
    [title |-> Trim(s.body.title),
     description |-> Trim(s.body.description),
     photos |-> Join(s.cloudinaryUrls),
     userId |-> TrimOrEmpty(s.body, "userId"),
     emailId |-> TrimOrEmpty(s.body, "emailId"),
     date |-> DateCell,
     timestamp |-> TimestampCell]

\* the row appendToSheet sends to Sheet1!A:G
SheetRow(d) ==
    <<d.title, d.description, d.photos, d.userId, d.emailId, d.date, d.timestamp>>

\* the header row initializeSheetHeaders writes
Headers ==
    << <<"T","i","t","l","e">>,
       <<"D","e","s","c","r","i","p","t","i","o","n">>,
       <<"P","h","o","t","o","s">>,
       <<"U","s","e","r"," ","I","D">>,
       <<"E","m","a","i","l"," ","I","D">>,
       <<"D","a","t","e">>,
       <<"T","i","m","e","S","t","a","m","p">> >>

\* no GET /api/feedback request is in flight
NoListing == [pc |-> "idle", rows |-> <<>>]

\* a request that has not arrived yet
NoRequest ==
    [pc |-> "idle", body |-> <<>>, files |-> 0, i |-> 0,
     cloudinaryUrls |-> <<>>, photoDetails |-> <<>>,
     uploadCalls |-> 0, appendCalls |-> 0, res |-> [status |-> 0]]

\* the then-branch of the per-file try: push the url and the details
UploadPushed(s, r) ==
    [s EXCEPT !.cloudinaryUrls = Append(@, SecureUrl(r, s.i + 1)),
              !.photoDetails = Append(@, UploadResult(r, s.i + 1))]

\* mutant: a failed upload leaves an empty url in the lists
UploadSkippedWithPlaceholder(s, r) ==
    [s EXCEPT !.cloudinaryUrls = Append(@, ""),
              !.photoDetails = Append(@, [url |-> "", original_name |-> s.i + 1])]

\* the per-file catch: the error is logged, nothing else happens
UploadSkipped(s, r) == s

\* mutant: the handler goes on to the append after its first upload attempt
NextFileThenAppend(s) ==
    [s EXCEPT !.i = @ + 1, !.uploadCalls = @ + 1, !.pc = "appending"]

\* i++ and the loop test; after the last file the handler goes on to the append
NextFile(s) ==
    [s EXCEPT !.i = @ + 1,
              !.uploadCalls = @ + 1,
              !.pc = IF s.i + 1 < s.files THEN "uploading" ELSE "appending"]

\* the handler sends its response and returns: the request's body and the
\* handler's locals are gone, the response and the count of the calls it
\* made to the uploader and to the store remain
Responded(s, response) ==
    [NoRequest EXCEPT !.pc = "done", !.files = s.files, !.uploadCalls = s.uploadCalls,
                      !.appendCalls = s.appendCalls, !.res = response]

\* the 201 response
Created(s) ==
    [status |-> 201,
     photosUploaded |-> Len(s.cloudinaryUrls),
     photosAttempted |-> s.files,
     title |-> FeedbackData(s).title,
     description |-> FeedbackData(s).description,
     photoUrls |-> s.cloudinaryUrls,
     photoDetails |-> s.photoDetails]

\* mutant: the append error is swallowed and the success response sent
StoreFaultSwallowed(s) == Created(s)

\* the outer catch: appendToSheet threw
StoreFault(s) == [status |-> 500, error |-> "Internal server error"]

(***************************************************************************)
(* Request inputs of POST /api/feedback.                                   *)
(***************************************************************************)
Titles == {<<>>, <<" ", "\t">>, <<" ", "a", " ">>}

Descriptions == {<<>>, <<"\n">>, <<"b">>}

\* both fields sent, at most one of them blank; one field missing; neither sent
FeedbackBodies ==
    {[title |-> t, description |-> <<"b">>] : t \in Titles}
        \cup {[title |-> <<" ", "a", " ">>, description |-> d] : d \in Descriptions}
        \cup {[title |-> <<" ", "a", " ">>], [description |-> <<"b">>], <<>>}

FileCounts == {0, 1, MaxFiles}

(***************************************************************************)
(* startServer: initializeSheetHeaders, then app.listen                    *)
(***************************************************************************)
\* !response.data.values || response.data.values.length === 0, for the
\* rows values.get returned for Sheet1!A1:G1
HeaderRowMissingAlways(values) == TRUE

HeaderRowMissing(values) == values = <<>>

\* values.get of Sheet1!A1:G1: the first row, when the sheet has one
FirstRow(rows) == IF rows = <<>> THEN <<>> ELSE <<rows[1]>>

\* values.update of Sheet1!A1:G1 with the header row
WriteHeaders(rows) == IF rows = <<>> THEN <<Headers>> ELSE [rows EXCEPT ![1] = Headers]

\* the header check, and the write when it is made, succeed
HeadersInitialized ==
    /\ server = "starting"
    /\ IF HeaderRowMissing(FirstRow(sheet))
       THEN /\ sheet' = WriteHeaders(sheet)
            /\ headerWrites' = headerWrites + 1
            /\ headersLog' = "Sheet headers initialized"
       ELSE /\ headersLog' = "Sheet headers already exist"
            /\ UNCHANGED <<sheet, headerWrites>>
    /\ server' = "listening"
    /\ UNCHANGED <<iconVars, standalone, media, subs, boots, readVars>>

\* getGoogleSheetsInstance, values.get or values.update throws: the catch
\* logs the error and startServer goes on to listen
HeadersFailed ==
    /\ server = "starting"
    /\ headersLog' = "Error initializing sheet headers"
    /\ server' = "listening"
    /\ UNCHANGED <<iconVars, standalone, sheet, media, subs, headerWrites, boots, readVars>>

\* the process is stopped and started again: the module is loaded anew, so
\* the registry is the bootstrap registry and the requests in flight are
\* gone; the spreadsheet and the media store are external and keep their
\* contents
BootstrapIconsAt(t) ==
    [k \in DOMAIN BootstrapIcons |-> [BootstrapIcons[k] EXCEPT !.lastUpdated = t]]

Restart ==
    /\ boots < MaxStarts
    /\ boots' = boots + 1
    /\ server' = "starting"
    /\ \E t \in Instants :
          /\ activeIcons' = BootstrapIconsAt(t)
          /\ now' = t
    /\ iconKeys' = BootstrapKeys
    /\ notified' = ""
    /\ iconRes' = [op |-> "none", status |-> 0]
    /\ subs' = [r \in 1..MaxSubs |-> NoRequest]
    /\ headersLog' = ""
    /\ feedbackRes' = [status |-> 0]
    /\ listing' = NoListing
    /\ UNCHANGED <<sheet, media, headerWrites, standalone>>

(***************************************************************************)
(* POST /api/feedback                                                      *)
(***************************************************************************)
\* the request arrives with n files: validation, up to the first await
SubmitFeedback(r, body, n) ==
    /\ server = "listening"
    /\ subs[r].pc = "idle"
    /\ \A q \in 1..(r - 1) : subs[q].pc # "idle"
    /\ subs' = [subs EXCEPT ![r] =
         IF IsBlank(body, "title")
         THEN Responded([NoRequest EXCEPT !.files = n],
                        [status |-> 400, error |-> "Title is required"])
         ELSE IF IsBlank(body, "description")
         THEN Responded([NoRequest EXCEPT !.files = n],
                        [status |-> 400, error |-> "Description is required"])
         ELSE [NoRequest EXCEPT !.pc = IF n > 0 THEN "uploading" ELSE "appending",
                                !.body = body, !.files = n]]
    /\ UNCHANGED <<server, startupLog, readVars, iconVars, standalone, sheet, media>>

\* mutant: a handler is resumed only when every request that arrived before
\* it has been answered
AwaitingInTurn(r, call) ==
    /\ subs[r].pc = call
    /\ \A q \in 1..(r - 1) : subs[q].pc = "done"

\* request r is suspended at `await` on the given call; the promise settles,
\* and the handler is resumed, whatever the other requests are doing
Awaiting(r, call) == subs[r].pc = call

\* await uploadToCloudinary(...) resolves for file i
UploadResolved(r) ==
    /\ Awaiting(r, "uploading")
    /\ media' = media \cup {SecureUrl(r, subs[r].i + 1)}
    /\ subs' = [subs EXCEPT ![r] = NextFile(UploadPushed(subs[r], r))]
    /\ UNCHANGED <<server, startupLog, readVars, iconVars, standalone, sheet>>

\* await uploadToCloudinary(...) rejects for file i
UploadRejected(r) ==
    /\ Awaiting(r, "uploading")
    /\ subs' = [subs EXCEPT ![r] = NextFile(UploadSkipped(subs[r], r))]
    /\ UNCHANGED <<server, startupLog, readVars, iconVars, standalone, sheet, media>>

\* the spreadsheet applies values.append of the row of request r; its
\* answer is on its way and the handler is still suspended
AppendApplied(r) ==
    /\ Awaiting(r, "appending")
    /\ sheet' = Append(sheet, SheetRow(FeedbackData(subs[r])))
    /\ subs' = [subs EXCEPT ![r].pc = "appended"]
    /\ UNCHANGED <<server, startupLog, readVars, iconVars, standalone, media>>

\* await appendToSheet(feedbackData) resolves: the handler answers 201
AppendResolved(r) ==
    /\ Awaiting(r, "appended")
    /\ subs' = [subs EXCEPT ![r] =
         Responded([subs[r] EXCEPT !.appendCalls = @ + 1], Created(subs[r]))]
    /\ UNCHANGED <<server, startupLog, readVars, iconVars, standalone, sheet, media>>

\* await appendToSheet(feedbackData) throws: the row was not applied
AppendRejected(r) ==
    /\ Awaiting(r, "appending")
    /\ subs' = [subs EXCEPT ![r] =
         Responded([subs[r] EXCEPT !.appendCalls = @ + 1], StoreFault(subs[r]))]
    /\ UNCHANGED <<server, startupLog, readVars, iconVars, standalone, sheet, media>>

(***************************************************************************)
(* GET /api/feedback                                                       *)
(***************************************************************************)
\* String.prototype.toLowerCase on the characters the cells are made of; a
\* character that is not an upper-case letter is left as it is.  The
\* timestamp token stands for a string like 2026-10-30T07:27:00.000Z, whose
\* letters T and Z have lower-case images; the date token stands for a
\* string of digits and hyphens like 2026-10-30, which has no letter.
UpperCase ==
    <<"A","B","C","D","E","F","G","H","I","J","K","L","M",
      "N","O","P","Q","R","S","T","U","V","W","X","Y","Z", "ISO-8601">>

LowerCase ==
    <<"a","b","c","d","e","f","g","h","i","j","k","l","m",
      "n","o","p","q","r","s","t","u","v","w","x","y","z", "iso-8601">>

ToLowerCaseChar(c) ==
    IF \E i \in DOMAIN UpperCase : UpperCase[i] = c
    THEN LowerCase[CHOOSE i \in DOMAIN UpperCase : UpperCase[i] = c]
    ELSE c

ToLowerCase(str) == [i \in DOMAIN str |-> ToLowerCaseChar(str[i])]

\* str.replace(/\s+/g, '_'): every maximal run of whitespace becomes one '_'
RECURSIVE ReplaceWhitespace(_)
ReplaceWhitespace(str) ==
    IF str = <<>> THEN <<>>
    ELSE IF str[1] \in Whitespace
    THEN <<"_">> \o ReplaceWhitespace(TrimStart(str))
    ELSE <<str[1]>> \o ReplaceWhitespace(Tail(str))

HeaderKey(header) == ReplaceWhitespace(ToLowerCase(header))

\* row[index] || ''
CellOrEmpty(row, index) == IF index \in DOMAIN row THEN row[index] ELSE <<>>

\* the object headers.forEach builds for one row: when two headers give the
\* same key the later column overwrites the earlier one
FeedbackEntry(headers, row) ==
    [k \in {HeaderKey(headers[i]) : i \in DOMAIN headers} |->
        LET last == CHOOSE i \in DOMAIN headers :
                        /\ HeaderKey(headers[i]) = k
                        /\ \A j \in DOMAIN headers : HeaderKey(headers[j]) = k => j <= i
        IN  CellOrEmpty(row, last)]

\* rows.slice(1).map(...) with headers = rows[0] || []
FeedbackEntries(rows) ==
    IF rows = <<>> THEN <<>>
    ELSE [i \in 1..(Len(rows) - 1) |-> FeedbackEntry(rows[1], rows[i + 1])]

\* the request arrives: the handler runs up to its first await and is
\* suspended until the Sheets calls have returned
GetFeedback ==
    /\ server = "listening"
    /\ listing.pc = "idle"
    /\ listing' = [pc |-> "calling", rows |-> <<>>]
    /\ UNCHANGED <<server, startupLog, iconVars, standalone, feedbackVars, feedbackRes>>

\* the spreadsheet serves values.get of Sheet1!A:G: response.data.values is
\* the rows the sheet holds at this moment
ValuesGetServed ==
    /\ listing.pc = "calling"
    /\ listing' = [pc |-> "served", rows |-> sheet]
    /\ UNCHANGED <<server, startupLog, iconVars, standalone, feedbackVars, feedbackRes>>

\* await values.get resolves: the handler builds the answer from the rows
\* it was served and sends it
GetFeedbackResolved ==
    /\ listing.pc = "served"
    /\ feedbackRes' = [status |-> 200,
                       count |-> Len(FeedbackEntries(listing.rows)),
                       data |-> FeedbackEntries(listing.rows)]
    /\ listing' = NoListing
    /\ UNCHANGED <<server, startupLog, iconVars, standalone, feedbackVars>>

\* getGoogleSheetsInstance or values.get throws
GetFeedbackFailed ==
    /\ listing.pc = "calling"
    /\ feedbackRes' = [status |-> 500, error |-> "Internal server error"]
    /\ listing' = NoListing
    /\ UNCHANGED <<server, startupLog, iconVars, standalone, feedbackVars>>

(***************************************************************************)
(* Specifications.                                                         *)
(***************************************************************************)
Init ==
    /\ server = "starting"
    /\ activeIcons = BootstrapIcons
    /\ iconKeys = BootstrapKeys
    /\ now = 0
    /\ notified = ""
    /\ iconRes = [op |-> "none", status |-> 0]
    /\ sheet = <<>>
    /\ media = {}
    /\ subs = [r \in 1..MaxSubs |-> NoRequest]
    /\ headersLog = ""
    /\ headerWrites = 0
    /\ boots = 1
    /\ feedbackRes = [status |-> 0]
    /\ listing = NoListing
    /\ standalone = StandaloneBootstrap

StartServer == HeadersInitialized \/ HeadersFailed

\* a request to an icon route of the unified server; the standalone server
\* is not involved
IconRequest ==
    /\ \/ GetCurrentIcon
       \/ GetAllIcons
       \/ \E body \in ActivateBodies : Activate(body)
       \/ \E body \in AddBodies : AddIcon(body)
    /\ UNCHANGED standalone

\* a request to an icon route, sent to the unified and to the standalone server
BothRequest ==
    \/ BothGetCurrentIcon
    \/ BothGetAllIcons
    \/ \E req \in BothActivateRequests : BothActivate(req)
    \/ \E req \in BothAddRequests : BothAddIcon(req)

NextBoth == StartServer \/ BothRequest

FeedbackRequest ==
    \/ \E r \in 1..MaxSubs, body \in FeedbackBodies, n \in FileCounts : SubmitFeedback(r, body, n)
    \/ \E r \in 1..MaxSubs : UploadResolved(r)
    \/ \E r \in 1..MaxSubs : UploadRejected(r)
    \/ \E r \in 1..MaxSubs : AppendApplied(r)
    \/ \E r \in 1..MaxSubs : AppendResolved(r)
    \/ \E r \in 1..MaxSubs : AppendRejected(r)

NextIcon == StartServer \/ IconRequest

NextFeedback == StartServer \/ FeedbackRequest

\* POST /api/feedback requests that carry no file
TextFeedbackRequest ==
    \/ \E r \in 1..MaxSubs, body \in FeedbackBodies : SubmitFeedback(r, body, 0)
    \/ \E r \in 1..MaxSubs : AppendApplied(r)
    \/ \E r \in 1..MaxSubs : AppendResolved(r)
    \/ \E r \in 1..MaxSubs : AppendRejected(r)

\* POST /api/feedback and GET /api/feedback
FeedbackRead == GetFeedback \/ ValuesGetServed \/ GetFeedbackResolved \/ GetFeedbackFailed

NextRead == StartServer \/ FeedbackRequest \/ FeedbackRead

\* the requests of the clients that are served side by side
StalledActivateBodies == {[iconName |-> n] : n \in {"navratri1", "holi"}}

StalledAddBodies ==
    {[iconName |-> "diwali", displayName |-> "Festival", iconUrl |-> "/uploads/icons/new.png"]}

StalledFeedbackBodies == {[title |-> <<" ", "a", " ">>, description |-> <<"b">>]}

StalledFileCounts == {0, 1}

NextStalled ==
    \/ StartServer
    \/ GetCurrentIcon /\ UNCHANGED standalone
    \/ \E body \in StalledActivateBodies : Activate(body) /\ UNCHANGED standalone
    \/ \E r \in 1..MaxSubs, body \in StalledFeedbackBodies, n \in StalledFileCounts :
           SubmitFeedback(r, body, n)
    \/ \E r \in 1..MaxSubs : UploadResolved(r)
    \/ \E r \in 1..MaxSubs : UploadRejected(r)
    \/ \E r \in 1..MaxSubs : AppendApplied(r)
    \/ \E r \in 1..MaxSubs : AppendResolved(r)
    \/ \E r \in 1..MaxSubs : AppendRejected(r)

NextRestart == StartServer \/ Restart \/ TextFeedbackRequest

Next == StartServer \/ IconRequest \/ FeedbackRequest \/ FeedbackRead

\* the icon routes alone
SpecIcon == Init /\ [][NextIcon]_vars

\* the feedback route alone
SpecFeedback == Init /\ [][NextFeedback]_vars

\* the feedback route without files, over several runs of the process
\* against the same spreadsheet
SpecRestart == Init /\ [][NextRestart]_vars

\* Icon requests and feedback submissions side by side.  The calls of the
\* first submission may never return; a call of any later submission that
\* stays pending does return, with either outcome.
OtherCallsReturn ==
    \A q \in 2..MaxSubs :
        /\ WF_vars(UploadResolved(q) \/ UploadRejected(q))
        /\ WF_vars(AppendApplied(q) \/ AppendRejected(q))
        /\ WF_vars(AppendResolved(q))

SpecStalled == Init /\ [][NextStalled]_vars /\ OtherCallsReturn

\* the icon routes of the unified and of the standalone server, fed the
\* same requests
SpecBoth == Init /\ [][NextBoth]_vars

\* the feedback routes, write and read
SpecRead == Init /\ [][NextRead]_vars

\* the whole server
Spec == Init /\ [][Next]_vars

(***************************************************************************)
(* Properties of the icon registry.                                        *)
(***************************************************************************)
ActiveKeys(icons) == {k \in DOMAIN icons : icons[k].isActive}

\* C1: after every activate or add request, whatever iconName it carries,
\* exactly one registry entry has isActive = true.
C1_ExactlyOneActive ==
    server = "listening" => Cardinality(ActiveKeys(activeIcons)) = 1

\* C2: every read of the registry (GET /api/admin/icons, GET
\* /api/app/current-icon) observes exactly one active entry, never zero and
\* never two.
C2_ReadsObserveOneActive ==
    /\ iconRes.op = "list" =>
          Cardinality({i \in DOMAIN iconRes.data : iconRes.data[i].isActive}) = 1
    /\ iconRes.op = "current-icon" =>
          /\ iconRes.status = 200
          /\ ActiveKeys(activeIcons) = {iconRes.iconName}

\* C3: an activate request whose iconName is missing or is not the
\* identifier of a registry entry is answered 400 and leaves the registry,
\* and so the active entry, unchanged.
C3_UnknownActivateRejected ==
    [][\A body \in ActivateBodies :
          ((~HasField(body, "iconName") \/ body.iconName \notin DOMAIN activeIcons)
             /\ Activate(body))
          => (iconRes'.status = 400 /\ activeIcons' = activeIcons /\ iconKeys' = iconKeys)]_vars

\* C4: an add request whose iconName is already an identifier of the
\* registry is answered 400, and the registry (its ids and every field of
\* every entry) is the same after the request as before it.
C4_DuplicateAddRejected ==
    [][\A body \in AddBodies :
          (HasField(body, "iconName") /\ body.iconName \in DOMAIN activeIcons /\ AddIcon(body))
          => (iconRes'.status = 400 /\ activeIcons' = activeIcons /\ iconKeys' = iconKeys)]_vars

C4_Witness ==
    /\ iconRes.op = "add"
    /\ iconRes.status = 400
    /\ "iconName" \in DOMAIN iconRes
    /\ iconRes.iconName \in DOMAIN activeIcons
    /\ activeIcons # BootstrapIcons

\* C5: a successful add inserts exactly one new entry, inactive, and
\* changes no field of any existing entry, so the active entry stays active.
C5_AddInsertsInactive ==
    [][\A body \in AddBodies :
          (iconRes'.status = 200 /\ AddIcon(body))
          => /\ body.iconName \notin DOMAIN activeIcons
             /\ DOMAIN activeIcons' = DOMAIN activeIcons \cup {body.iconName}
             /\ iconKeys' = Append(iconKeys, body.iconName)
             /\ activeIcons'[body.iconName].isActive = FALSE
             /\ \A k \in DOMAIN activeIcons : activeIcons'[k] = activeIcons[k]
             /\ ActiveKeys(activeIcons') = ActiveKeys(activeIcons)]_vars

C5_Witness ==
    /\ iconRes.op = "add"
    /\ iconRes.status = 200
    /\ activeIcons[iconRes.iconName].isActive = FALSE
    /\ ActiveKeys(activeIcons) = {"navratri3"}

\* C6 as stated: an entry is active only if the most recent successful
\* activate named it.
C6_ActiveOnlyIfLastActivated ==
    server = "listening" =>
        \A k \in DOMAIN activeIcons : activeIcons[k].isActive => notified = k

\* C6 as amended: a successful add(x) followed by activate(y), for an
\* existing y other than x, leaves x inactive; an entry is active only if
\* the most recent successful activate named it or, while no activate has
\* succeeded yet, it is the bootstrap entry DEFAULT.
C6_ActiveOnlyIfLastActivatedOrBootstrap ==
    /\ [](\A k \in DOMAIN activeIcons :
             activeIcons[k].isActive =>
                 (notified = k \/ (notified = "" /\ k = "DEFAULT")))
    /\ [][\A body \in ActivateBodies :
             (/\ iconRes.op = "add"
              /\ iconRes.status = 200
              /\ Activate(body)
              /\ HasField(body, "iconName")
              /\ body.iconName \in DOMAIN activeIcons
              /\ body.iconName # iconRes.iconName)
             => /\ iconRes'.status = 200
                /\ activeIcons'[iconRes.iconName].isActive = FALSE
                /\ ActiveKeys(activeIcons') = {body.iconName}]_vars

C6_Witness ==
    /\ iconRes.op = "activate"
    /\ iconRes.status = 200
    /\ iconRes.activeIcon = "navratri1"
    /\ "diwali" \in DOMAIN activeIcons
    /\ activeIcons["diwali"].isActive = FALSE
    /\ activeIcons["navratri1"].isActive

\* C7: GET /api/app/current-icon answers 200 with the identifier of the
\* unique active entry; 404 is never answered in a run that starts from the
\* bootstrap registry.
C7_CurrentIconNever404 ==
    [][GetCurrentIcon =>
          /\ iconRes'.status # 404
          /\ iconRes'.status = 200 => ActiveKeys(activeIcons) = {iconRes'.iconName}]_vars

(***************************************************************************)
(* Properties of the feedback pipeline.                                    *)
(***************************************************************************)
\* a text field that is missing, empty or made of whitespace only
BlankField(body, f) ==
    ~HasField(body, f) \/ \A i \in DOMAIN body[f] : body[f][i] \in Whitespace

\* C8: a submission whose title or description is missing, empty or
\* whitespace-only is answered 400 at once, whatever attachments it carries:
\* no upload and no append is made for it, then or later.
C8_BlankRejectedBeforeSideEffects ==
    /\ [][\A r \in 1..MaxSubs :
             \* a step in which request r arrives, with subs'[r].files attachments
             (subs[r].pc = "idle" /\ subs'[r].pc # "idle") =>
                 \A body \in FeedbackBodies :
                     ((BlankField(body, "title") \/ BlankField(body, "description"))
                        /\ SubmitFeedback(r, body, subs'[r].files))
                     => /\ subs'[r].pc = "done"
                        /\ subs'[r].res.status = 400
                        /\ subs'[r].uploadCalls = 0
                        /\ subs'[r].appendCalls = 0
                        /\ media' = media
                        /\ sheet' = sheet]_vars
    \* once rejected, the request takes no further step
    /\ [][\A r \in 1..MaxSubs : subs[r].res.status = 400 => subs'[r] = subs[r]]_vars

C8_Witness ==
    \E r \in 1..MaxSubs :
        /\ subs[r].res.status = 400
        /\ subs[r].res.error = "Description is required"
        /\ subs[r].files = MaxFiles
        /\ subs[r].uploadCalls = 0
        /\ subs[r].appendCalls = 0

\* the urls of the files 1..n of request r that are live in the media
\* store, in the order of the files
RECURSIVE LiveUrls(_, _)
LiveUrls(r, n) ==
    IF n = 0 THEN <<>>
    ELSE LiveUrls(r, n - 1) \o (IF SecureUrl(r, n) \in media THEN <<SecureUrl(r, n)>> ELSE <<>>)

\* C9: a valid submission with N attachments is answered 201 with
\* photosAttempted = N, photosUploaded = the number of uploads that
\* succeeded, and photoUrls (and the urls of photoDetails) = the urls of the
\* successful uploads in input order, with nothing in place of a failed one;
\* upload failures never fail the request: every attachment is attempted, and
\* a 500 comes only from the append.
C9_PartialUploadFailureTolerated ==
    \A r \in 1..MaxSubs :
        /\ subs[r].res.status = 201 =>
              /\ subs[r].res.photosAttempted = subs[r].files
              /\ subs[r].uploadCalls = subs[r].files
              /\ subs[r].res.photosUploaded =
                     Cardinality({i \in 1..subs[r].files : SecureUrl(r, i) \in media})
              /\ subs[r].res.photoUrls = LiveUrls(r, subs[r].files)
              /\ [i \in DOMAIN subs[r].res.photoDetails |-> subs[r].res.photoDetails[i].url]
                     = subs[r].res.photoUrls
        /\ subs[r].pc \in {"appending", "appended"} => subs[r].uploadCalls = subs[r].files
        /\ (subs[r].pc = "done" /\ subs[r].res.status \notin {201, 400}) =>
              /\ subs[r].uploadCalls = subs[r].files
              /\ subs[r].appendCalls = 1

C9_Witness ==
    \E r \in 1..MaxSubs :
        /\ subs[r].res.status = 201
        /\ subs[r].res.photosAttempted = 3
        /\ subs[r].res.photosUploaded = 2
        /\ subs[r].res.photoUrls = <<SecureUrl(r, 1), SecureUrl(r, 3)>>
        /\ \E q \in 1..MaxSubs :
              /\ subs[q].res.status = 201
              /\ subs[q].res.photosAttempted = 3
              /\ subs[q].res.photosUploaded = 0

\* C10: when the append to the record store fails, the request is answered
\* 500 and nothing more, no row is added, and the photos the request
\* uploaded stay in the media store; no step ever removes a url from it.
C10_StoreFaultNoRollback ==
    /\ [][\A r \in 1..MaxSubs :
             AppendRejected(r)
             => /\ subs'[r].pc = "done"
                /\ subs'[r].res.status = 500
                /\ subs'[r].appendCalls = 1
                /\ sheet' = sheet
                /\ Range(subs[r].cloudinaryUrls) \subseteq media']_vars
    /\ [][\A r \in 1..MaxSubs : subs[r].res.status = 500 => subs'[r] = subs[r]]_vars
    /\ [][media \subseteq media']_vars

C10_Witness ==
    \E r \in 1..MaxSubs :
        /\ subs[r].pc = "done"
        /\ subs[r].res.status = 500
        /\ subs[r].files = MaxFiles
        /\ \A i \in 1..MaxFiles : SecureUrl(r, i) \in media
        /\ \A i \in DOMAIN sheet : sheet[i] = Headers


(***************************************************************************)
(* Properties of the upload stage when no upload can succeed.              *)
(***************************************************************************)
\* request r attempted every one of its files and none of them was stored:
\* what a request goes through when the Cloudinary configuration is
\* unusable and uploadToCloudinary rejects on every call
AllUploadsFailed(r) ==
    /\ subs[r].files > 0
    /\ subs[r].uploadCalls = subs[r].files
    /\ \A i \in 1..subs[r].files : SecureUrl(r, i) \notin media

\* C11: when every upload attempt of a valid submission with at least one
\* attachment fails, the request is answered 500 "Failed to upload photos"
\* and no record is appended; it is never answered 201 with zero photos.
C11_UploadFatalFailsRequest ==
    \A r \in 1..MaxSubs :
        (subs[r].pc = "done" /\ AllUploadsFailed(r))
            => /\ subs[r].res.status = 500
               /\ subs[r].res.error = "Failed to upload photos"
               /\ subs[r].appendCalls = 0


(***************************************************************************)
(* Properties of the header bootstrap.                                     *)
(***************************************************************************)
\* C12: the header bootstrap is idempotent.  Run on an empty sheet it writes
\* the seven-column header row, once; run on a sheet that has a first row it
\* writes nothing; so over any number of runs against a sheet that started
\* empty at most one header write is made.  It never raises: when a Sheets
\* call fails the error is logged and the server goes on to listen.
C12_HeaderBootstrapIdempotent ==
    /\ [](/\ headerWrites <= 1
          /\ headerWrites = 1 => (sheet # <<>> /\ sheet[1] = Headers)
          /\ headersLog = "Sheet headers initialized" => headerWrites = 1)
    /\ [][HeadersInitialized
            => /\ server' = "listening"
               /\ IF sheet = <<>>
                  THEN /\ sheet' = <<Headers>>
                       /\ Len(sheet'[1]) = 7
                       /\ headerWrites' = headerWrites + 1
                  ELSE /\ sheet' = sheet
                       /\ headerWrites' = headerWrites
                       /\ headersLog' = "Sheet headers already exist"]_vars
    /\ [][HeadersFailed
            => /\ server' = "listening"
               /\ sheet' = sheet
               /\ headerWrites' = headerWrites]_vars

\* the bootstrap has run twice in succession on a sheet that started empty:
\* the first run wrote the header, the second found it
C12_Witness ==
    /\ boots = 2
    /\ server = "listening"
    /\ headersLog = "Sheet headers already exist"
    /\ headerWrites = 1
    /\ sheet = <<Headers>>


(***************************************************************************)
(* Properties of the feedback listing.                                     *)
(***************************************************************************)
\* the records among the rows a listing was served, in append order: every
\* row but the header row the bootstrap wrote
AppendedRecords(rows) == IF headerWrites = 1 THEN Tail(rows) ELSE rows

\* C13: whether the header bootstrap at startup succeeded or failed, GET
\* /api/feedback answers with exactly one entry per record that had been
\* appended when the sheet was read, in append order, and each entry has one
\* key per header column (lower-cased, whitespace runs replaced by "_")
\* holding the record's cell, or "" when the row has no such cell.
C13_ListReturnsEveryRecord ==
    [][GetFeedbackResolved
         => /\ feedbackRes'.status = 200
            /\ feedbackRes'.count = Len(AppendedRecords(listing.rows))
            /\ Len(feedbackRes'.data) = Len(AppendedRecords(listing.rows))
            /\ \A i \in 1..Len(AppendedRecords(listing.rows)) :
                  /\ i \in DOMAIN feedbackRes'.data
                  /\ feedbackRes'.data[i] =
                        [k \in {HeaderKey(h) : h \in Range(Headers)} |->
                            CellOrEmpty(AppendedRecords(listing.rows)[i],
                                CHOOSE c \in DOMAIN Headers : HeaderKey(Headers[c]) = k)]]_vars

(***************************************************************************)
(* Properties of the icon listing and of lastUpdated.                      *)
(***************************************************************************)
\* C14: GET /api/admin/icons lists the entries in insertion order, the
\* bootstrap entries first and then the added identifiers in the order they
\* were added, whatever identifier strings the add requests supplied.
C14_ListInInsertionOrder ==
    [][GetAllIcons
         => /\ iconRes'.status = 200
            /\ [i \in DOMAIN iconRes'.data |-> iconRes'.data[i].iconName] = iconKeys]_vars

\* the entry that is active in the registry, when there is exactly one
ActiveEntry(icons) == CHOOSE k \in DOMAIN icons : icons[k].isActive

\* C15 as stated: a successful activate of t while another entry p is active
\* sets p inactive and t active and refreshes lastUpdated on both p and t.
C15_ActivateRefreshesBoth ==
    [][\A body \in ActivateBodies :
          (/\ Cardinality(ActiveKeys(activeIcons)) = 1
           /\ HasField(body, "iconName")
           /\ body.iconName \in DOMAIN activeIcons
           /\ body.iconName # ActiveEntry(activeIcons)
           /\ Activate(body))
          => /\ iconRes'.status = 200
             /\ ~activeIcons'[ActiveEntry(activeIcons)].isActive
             /\ activeIcons'[body.iconName].isActive
             /\ activeIcons'[body.iconName].lastUpdated = now'
             /\ activeIcons'[ActiveEntry(activeIcons)].lastUpdated = now']_vars

\* C15 as the code has it: a successful activate of t while another entry p
\* is active sets p inactive and t active and refreshes lastUpdated on t
\* only; p, like every other entry, keeps the lastUpdated it had.
C15_ActivateRefreshesTargetOnly ==
    [][\A body \in ActivateBodies :
          (/\ Cardinality(ActiveKeys(activeIcons)) = 1
           /\ HasField(body, "iconName")
           /\ body.iconName \in DOMAIN activeIcons
           /\ body.iconName # ActiveEntry(activeIcons)
           /\ Activate(body))
          => /\ iconRes'.status = 200
             /\ ~activeIcons'[ActiveEntry(activeIcons)].isActive
             /\ activeIcons'[body.iconName].isActive
             /\ activeIcons'[body.iconName].lastUpdated = now'
             /\ \A k \in DOMAIN activeIcons \ {body.iconName} :
                   activeIcons'[k].lastUpdated = activeIcons[k].lastUpdated]_vars

\* navratri1 was activated at instant 1 while DEFAULT, last updated at
\* instant 0, was the active entry
C15_Witness ==
    /\ iconRes.op = "activate"
    /\ iconRes.status = 200
    /\ iconRes.activeIcon = "navratri1"
    /\ now = 1
    /\ activeIcons["navratri1"].isActive
    /\ activeIcons["navratri1"].lastUpdated = 1
    /\ ~activeIcons["DEFAULT"].isActive
    /\ activeIcons["DEFAULT"].lastUpdated = 0


(***************************************************************************)
(* Properties of the append stage.                                         *)
(***************************************************************************)
\* C16: the row of a submission is applied to the sheet only after every one
\* of its attachments has had its upload attempt; the step applies exactly one
\* row, whose photo cell is the urls of the uploads of that same submission
\* that succeeded, in input order, whatever the other submissions in flight
\* have uploaded.  A submission is answered 201 only once its row has been
\* applied, by the step that resumes it after the append, which adds no
\* further row; no other step adds a row, and no submission has its row
\* applied twice.
C16_AppendAfterUploadsOwnPhotos ==
    [][/\ \A r \in 1..MaxSubs :
            /\ (subs[r].pc # "appended" /\ subs'[r].pc = "appended")
                  => /\ subs[r].pc = "appending"
                     /\ subs[r].uploadCalls = subs[r].files
                     /\ subs[r].appendCalls = 0
                     /\ Len(sheet') = Len(sheet) + 1
                     /\ sheet'[Len(sheet')][3] = Join(LiveUrls(r, subs[r].files))
                     /\ AppendApplied(r)
            /\ (subs[r].pc = "appended" /\ subs'[r] # subs[r])
                  => /\ subs'[r].res.status = 201
                     /\ subs'[r].appendCalls = 1
                     /\ sheet' = sheet
                     /\ AppendResolved(r)
            /\ (subs[r].res.status # 201 /\ subs'[r].res.status = 201)
                  => subs[r].pc = "appended"
            /\ subs[r].res.status = 201 => subs'[r] = subs[r]
       /\ (server = "listening" /\ sheet' # sheet)
            => /\ SubSeq(sheet', 1, Len(sheet)) = sheet
               /\ \E r \in 1..MaxSubs :
                     subs[r].pc = "appending" /\ subs'[r].pc = "appended"]_vars

\* two submissions were in flight together; the second one finished first,
\* and each row holds the photos of its own submission
C16_Witness ==
    /\ \A r \in 1..2 : subs[r].res.status = 201
    /\ subs[1].files = 3
    /\ subs[2].files = 1
    /\ Len(sheet) >= 2
    /\ sheet[Len(sheet) - 1][3] = <<SecureUrl(2, 1)>>
    /\ sheet[Len(sheet)][3] = <<SecureUrl(1, 1), ",", " ", SecureUrl(1, 3)>>


(***************************************************************************)
(* Properties of requests served next to a stalled submission.             *)
(***************************************************************************)
InFlight(r) == subs[r].pc \in {"uploading", "appending", "appended"}

\* C17: while a submission is suspended on an upload or an append that has
\* not returned, and may never return, every icon request is still handled
\* (each icon handler is one synchronous step, so being handled is being
\* answered), the next submission is still accepted, and every later
\* submission in flight is still answered; answering another request leaves
\* the suspended submission as it was.
C17_StalledSubmissionBlocksNothing ==
    /\ [][InFlight(1)
            => /\ ENABLED GetCurrentIcon
               /\ ENABLED GetAllIcons
               /\ \A body \in StalledActivateBodies : ENABLED Activate(body)
               /\ \A body \in StalledAddBodies : ENABLED AddIcon(body)
               /\ \A q \in 2..MaxSubs :
                     (subs[q].pc = "idle" /\ subs[q - 1].pc # "idle")
                     => \A body \in StalledFeedbackBodies, n \in StalledFileCounts :
                           ENABLED SubmitFeedback(q, body, n)]_vars
    /\ \A q \in 2..MaxSubs : InFlight(q) ~> subs[q].pc = "done"
    /\ [][\A q \in 2..MaxSubs :
             (InFlight(1) /\ subs'[q] # subs[q]) => subs'[1] = subs[1]]_vars
    /\ [][(InFlight(1) /\ iconRes' # iconRes) => subs'[1] = subs[1]]_vars

\* the first submission is still waiting for its first upload; meanwhile a
\* later submission was answered 201 and an activate request was answered
C17_Witness ==
    /\ subs[1].pc = "uploading"
    /\ subs[1].uploadCalls = 0
    /\ subs[2].res.status = 201
    /\ subs[2].files = 1
    /\ iconRes.op = "activate"
    /\ iconRes.status = 200
    /\ activeIcons["navratri1"].isActive


(***************************************************************************)
(* The unified and the standalone icon server compared.                    *)
(***************************************************************************)
\* the registry contents the claim compares: identifiers, name, url, isActive
RegistryContents(icons) ==
    [k \in DOMAIN icons |->
        [name |-> icons[k].name, url |-> icons[k].url, isActive |-> icons[k].isActive]]

SameRegistry ==
    /\ RegistryContents(standalone.activeIcons) = RegistryContents(activeIcons)
    /\ standalone.iconKeys = iconKeys

\* a request both servers parse alike: a JSON body within the body size
\* limit of both
PlainJson(req) == req.type = "application/json" /\ ~req.large

\* C18 as stated: fed the same sequence of current-icon, list, add and
\* activate requests from their bootstrap registries, the two servers answer
\* with the same status codes and hold the same registry contents after
\* every request.
C18_SameStateMachine ==
    /\ standalone.res.status = iconRes.status
    /\ SameRegistry

\* C18 amended: the two servers answer with the same status code and hold
\* the same registry contents after every request, as long as the requests
\* that carry a body carry a JSON body of no more than 100kb: a request that
\* reaches two servers whose registries agree leaves them in agreement.
C18_SameStateMachineOnPlainJson ==
    /\ [][(/\ iconRes'.op \in {"current-icon", "list"}
            /\ SameRegistry
            /\ (BothGetCurrentIcon \/ BothGetAllIcons))
             => /\ standalone'.res.status = iconRes'.status
                /\ SameRegistry']_vars
    /\ [][\A req \in BothActivateRequests :
             (/\ PlainJson(req)
              /\ iconRes'.op = "activate"
              /\ SameRegistry
              /\ BothActivate(req))
             => /\ standalone'.res.status = iconRes'.status
                /\ SameRegistry']_vars
    /\ [][\A req \in BothAddRequests :
             (/\ PlainJson(req)
              /\ iconRes'.op = "add"
              /\ SameRegistry
              /\ BothAddIcon(req))
             => /\ standalone'.res.status = iconRes'.status
                /\ SameRegistry']_vars
    /\ [][(server = "starting" /\ boots = 1) => SameRegistry]_vars

\* both servers added diwali and then activated it, answering 200 each time
C18_Witness ==
    /\ SameRegistry
    /\ iconRes.op = "activate"
    /\ iconRes.status = 200
    /\ standalone.res.op = "activate"
    /\ standalone.res.status = 200
    /\ "diwali" \in DOMAIN standalone.activeIcons
    /\ standalone.activeIcons["diwali"].isActive
    /\ activeIcons["diwali"].isActive
    /\ ~standalone.activeIcons["DEFAULT"].isActive

====
